---- MODULE Spec2Model ----
(***************************************************************************)
(* Portfolio ledger and risk-guarded trade execution of swiss_trader.py.   *)
(*                                                                         *)
(* Amounts are Python floats in the source; the model computes them in     *)
(* exact arithmetic.  Prices and cash are whole dollars, the percentage    *)
(* limits are kept in hundredths (0.15 is 15) and every comparison is      *)
(* cross-multiplied, a cost basis is an exact fraction <<num, den>>.       *)
(*                                                                         *)
(* One cycle of main() is Start, ExecForced*, Consult, ExecDecision*,      *)
(* WrapUp.  The decision source is untrusted: its decisions are drawn one  *)
(* at a time from a bounded set of proposals.                              *)
(***************************************************************************)
EXTENDS Integers, Sequences, FiniteSets, TLC

VARIABLES cash, holdings, cost_basis, trades, history, reports,
          pc, dry_run, current_prices, total_portfolio_value,
          forced_trades, pending, last, disk

ledger == <<cash, holdings, cost_basis, trades>>
vars == <<cash, holdings, cost_basis, trades, history, reports,
          pc, dry_run, current_prices, total_portfolio_value,
          forced_trades, pending, last, disk>>

(* ---------------- bounds of the model ---------------- *)
MaxTrades == 3
MaxCycles == 2
MaxPosTrades == 14
MaxProfitCycles == 6
MaxProfitTrades == 3

(* ---------------- limits, swiss_trader.py:36-41 (percentages in hundredths) *)
MAX_POSITION_PCT == 10
MIN_CASH_RESERVE_PCT == 15
STOP_LOSS_PCT == -10
TAKE_PROFIT_PCT == 20
MAX_POSITIONS == 12
MIN_TRADE_VALUE == 500
INITIAL_CASH == 50000

(* ---------------- inputs ---------------- *)
Tickers == {"A", "B"}
Prices == {300, 400}
Quantities == {-1, 0, 2, 15}
Actions == {"BUY", "SELL", "HOLD"}

\* current_prices: a price for some of the tickers, none for the others
PriceMaps(T, P) == UNION {[S -> P] : S \in SUBSET T}

\* what the decision source may propose: every BUY and SELL quantity at a
\* confidence that is acted on, a HOLD, and low-confidence proposals that
\* would otherwise pass the guardrails
Proposals(T, Q) ==
    [ticker : T, action : {"BUY", "SELL"}, quantity : Q,
     confidence : {"medium"}]
    \cup [ticker : T, action : {"HOLD"}, quantity : {0}, confidence : {"medium"}]
    \cup [ticker : T, action : Actions, quantity : {2}, confidence : {"low"}]

(* ---------------- exact arithmetic helpers ---------------- *)
\* Python int(a / b) for b > 0: truncation toward zero
IntDiv(a, b) == IF a >= 0 THEN a \div b ELSE -((-a) \div b)

RECURSIVE GCD(_, _)
GCD(a, b) == IF b = 0 THEN a ELSE GCD(b, a % b)

\* a fraction in lowest terms, den > 0
Frac(n, d) == LET g == GCD(IF n < 0 THEN -n ELSE n, d)
              IN IF g = 0 THEN <<0, 1>> ELSE <<n \div g, d \div g>>

\* dict.get(key, 0)
Get(f, k) == IF k \in DOMAIN f THEN f[k] ELSE 0
GetFrac(f, k) == IF k \in DOMAIN f THEN f[k] ELSE <<0, 1>>

\* dict with key k set to v / deleted
Put(f, k, v) == [x \in (DOMAIN f) \cup {k} |-> IF x = k THEN v ELSE f[x]]
Del(f, k) == [x \in (DOMAIN f) \ {k} |-> f[x]]

RECURSIVE SumOver(_, _, _)
SumOver(S, h, p) ==
    IF S = {} THEN 0
    ELSE LET t == CHOOSE x \in S : TRUE
         IN h[t] * p[t] + SumOver(S \ {t}, h, p)

TotalValue_NoCash(c, h, p) == SumOver((DOMAIN h) \cap (DOMAIN p), h, p)
\* cash plus shares * price over the held tickers that have a price
TotalValue(c, h, p) == c + SumOver((DOMAIN h) \cap (DOMAIN p), h, p)

(* ---------------- guardrails of a BUY, execute_trade ---------------- *)
Skip(why, q) == [outcome |-> why, quantity |-> q]

\* GUARDRAIL: Minimum trade size
TooSmall(quantity, price) == price * quantity < MIN_TRADE_VALUE

CashReserve_NoClamp(pf_cash, quantity, price, tpv) ==
    [ok |-> TRUE, quantity |-> quantity]
CashReserve_IgnoreFloor(pf_cash, quantity, price, tpv) ==
    LET cost == price * quantity
        min_cash100 == tpv * MIN_CASH_RESERVE_PCT
        available100 == 100 * pf_cash
    IN IF 100 * (pf_cash - cost) < min_cash100
       THEN IF available100 >= 100 * MIN_TRADE_VALUE
            THEN LET q == IntDiv(available100, 100 * price)
                 IN [ok |-> q > 0, quantity |-> q]
            ELSE [ok |-> FALSE, quantity |-> quantity]
       ELSE [ok |-> TRUE, quantity |-> quantity]
\* GUARDRAIL: Cash reserve.  min_cash = tpv * 0.15, times 100 on both sides
CashReserve(pf_cash, quantity, price, tpv) ==
    LET cost == price * quantity
        min_cash100 == tpv * MIN_CASH_RESERVE_PCT
        available100 == 100 * pf_cash - min_cash100
    IN IF 100 * (pf_cash - cost) < min_cash100
       THEN IF available100 >= 100 * MIN_TRADE_VALUE
            THEN LET q == IntDiv(available100, 100 * price)
                 IN [ok |-> q > 0, quantity |-> q]
            ELSE [ok |-> FALSE, quantity |-> quantity]
       ELSE [ok |-> TRUE, quantity |-> quantity]

MaxPosition_IgnoreExisting(owned, quantity, price, tpv) ==
    LET cost == price * quantity
        existing_value == owned * price
        max_position100 == tpv * MAX_POSITION_PCT
        allowed100 == max_position100
    IN IF 100 * (existing_value + cost) > max_position100
       THEN IF allowed100 >= 100 * MIN_TRADE_VALUE
            THEN LET q == IntDiv(allowed100, 100 * price)
                 IN [ok |-> q > 0, quantity |-> q]
            ELSE [ok |-> FALSE, quantity |-> quantity]
       ELSE [ok |-> TRUE, quantity |-> quantity]
\* GUARDRAIL: Max position size.  max_position = tpv * 0.10, times 100
MaxPosition(owned, quantity, price, tpv) ==
    LET cost == price * quantity
        existing_value == owned * price
        max_position100 == tpv * MAX_POSITION_PCT
        allowed100 == max_position100 - 100 * existing_value
    IN IF 100 * (existing_value + cost) > max_position100
       THEN IF allowed100 >= 100 * MIN_TRADE_VALUE
            THEN LET q == IntDiv(allowed100, 100 * price)
                 IN [ok |-> q > 0, quantity |-> q]
            ELSE [ok |-> FALSE, quantity |-> quantity]
       ELSE [ok |-> TRUE, quantity |-> quantity]

MaxPositionsReached_OffByOne(h, ticker) ==
    ticker \notin DOMAIN h /\ Cardinality(DOMAIN h) > MAX_POSITIONS
\* GUARDRAIL: Max positions
MaxPositionsReached(h, ticker) ==
    ticker \notin DOMAIN h /\ Cardinality(DOMAIN h) >= MAX_POSITIONS

\* the last test of the BUY branch
EnoughCash(pf_cash, cost) == pf_cash >= cost

\* a BUY branch that rejects a breaching quantity instead of reducing it
BuyOutcome_RejectOnBreach(c, h, ticker, quantity, price, tpv) ==
    IF TooSmall(quantity, price) THEN Skip("skip_too_small", quantity)
    ELSE IF 100 * (c - price * quantity) < tpv * MIN_CASH_RESERVE_PCT
         THEN Skip("skip_cash_reserve", quantity)
    ELSE IF 100 * (Get(h, ticker) + quantity) * price > tpv * MAX_POSITION_PCT
         THEN Skip("skip_position_limit", quantity)
    ELSE IF MaxPositionsReached(h, ticker)
         THEN Skip("skip_max_positions", quantity)
    ELSE [outcome |-> "BUY", quantity |-> quantity]
BuyOutcome(c, h, ticker, quantity, price, tpv) ==
    IF TooSmall(quantity, price) THEN Skip("skip_too_small", quantity)
    ELSE LET r == CashReserve(c, quantity, price, tpv)
         IN IF ~r.ok THEN Skip("skip_cash_reserve", r.quantity)
            ELSE LET m == MaxPosition(Get(h, ticker), r.quantity, price, tpv)
                 IN IF ~m.ok THEN Skip("skip_position_limit", m.quantity)
                    ELSE IF MaxPositionsReached(h, ticker)
                         THEN Skip("skip_max_positions", m.quantity)
                    ELSE IF EnoughCash(c, price * m.quantity)
                         THEN [outcome |-> "BUY", quantity |-> m.quantity]
                    ELSE Skip("skip_insufficient_funds", m.quantity)

\* the test of the SELL branch
CanSell_AnyHolding(owned, quantity) == owned > 0 /\ quantity > 0
CanSell_NoSignTest(owned, quantity) == owned >= quantity
CanSell_Strict(owned, quantity) == owned > quantity /\ quantity > 0
CanSell(owned, quantity) == owned >= quantity /\ quantity > 0

SellOutcome(h, ticker, quantity) ==
    IF CanSell(Get(h, ticker), quantity)
    THEN [outcome |-> "SELL", quantity |-> quantity]
    ELSE Skip("skip_not_enough_shares", quantity)

\* Skip low confidence trades
LowConfidence_CaseMismatch(confidence) == confidence = "LOW"
LowConfidence(confidence) == confidence = "low"

\* what execute_trade does with a decision: the branch it ends in and the
\* final quantity
Outcome(d, c, h, p, tpv) ==
    IF LowConfidence(d.confidence) THEN Skip("skip_low_confidence", d.quantity)
    ELSE IF d.ticker \notin DOMAIN p
         THEN Skip("skip_price_unavailable", d.quantity)
    ELSE IF d.action = "BUY"
         THEN BuyOutcome(c, h, d.ticker, d.quantity, p[d.ticker], tpv)
    ELSE IF d.action = "SELL" THEN SellOutcome(h, d.ticker, d.quantity)
    ELSE IF d.action = "HOLD" THEN [outcome |-> "HOLD", quantity |-> d.quantity]
    ELSE Skip("none", d.quantity)

(* ---------------- ledger mutations of execute_trade ---------------- *)
TradeRecord_Requested(d, action, quantity, price) ==
    [ticker |-> d.ticker, action |-> action, quantity |-> d.quantity,
     price |-> price, total |-> price * d.quantity,
     confidence |-> d.confidence]
TradeRecord(d, action, quantity, price) ==
    [ticker |-> d.ticker, action |-> action, quantity |-> quantity,
     price |-> price, total |-> price * quantity, confidence |-> d.confidence]

\* a BUY that does not charge the cash
BuyCash_Free(c, price, quantity) == c
BuyCash(c, price, quantity) == c - price * quantity
BuyHoldings(h, ticker, quantity) == Put(h, ticker, Get(h, ticker) + quantity)
BuyCostBasis(cb, ticker, price, quantity) ==
    LET old == GetFrac(cb, ticker)
    IN Put(cb, ticker, Frac(old[1] + price * quantity * old[2], old[2]))

SellCash_PriceOnly(c, price, quantity) == c + price
SellCash(c, price, quantity) == c + price * quantity
SellHoldings_KeepZero(h, ticker, quantity) ==
    Put(h, ticker, Get(h, ticker) - quantity)
SellHoldings(h, ticker, quantity) ==
    IF Get(h, ticker) - quantity = 0 THEN Del(h, ticker)
    ELSE Put(h, ticker, Get(h, ticker) - quantity)
SellCostBasis_Unreduced(cb, h, ticker, quantity) ==
    IF Get(h, ticker) - quantity = 0 THEN Del(cb, ticker) ELSE cb
SellCostBasis_KeepKey(cb, h, ticker, quantity) ==
    LET old == GetFrac(cb, ticker)
        owned == Get(h, ticker)
    IN Put(cb, ticker, Frac(old[1] * (owned - quantity), old[2] * owned))
\* ratio = quantity / owned; cost_basis * (1 - ratio)
SellCostBasis(cb, h, ticker, quantity) ==
    IF Get(h, ticker) - quantity = 0 THEN Del(cb, ticker)
    ELSE LET old == GetFrac(cb, ticker)
             owned == Get(h, ticker)
         IN Put(cb, ticker, Frac(old[1] * (owned - quantity), old[2] * owned))

\* last: the execute_trade call that has just returned (its decision, the
\* branch it ended in, the final quantity, the price it used, and the cash
\* and the shares of the ticker it found), NoCall after any other step
NoCall == [outcome |-> "no_call", ticker |-> "", action |-> "", quantity |-> 0,
           confidence |-> "", final |-> 0, price |-> 0, forced |-> FALSE,
           cash0 |-> 0, owned0 |-> 0]

\* a run that applies the trade to the ledger even in a dry run
Commits_Always(dr) == TRUE
\* if not dry_run: the mutation of the ledger is applied
Commits(dr) == ~dr

\* a HOLD that is logged in trades like an executed trade
execute_trade_LogsHold(d, forced) ==
    LET o == Outcome(d, cash, holdings, current_prices, total_portfolio_value)
        price == Get(current_prices, d.ticker)
        q == o.quantity
    IN /\ last' = [outcome |-> o.outcome, ticker |-> d.ticker,
                   action |-> d.action, quantity |-> d.quantity,
                   confidence |-> d.confidence, final |-> q,
                   price |-> price, forced |-> forced,
                   cash0 |-> cash, owned0 |-> Get(holdings, d.ticker)]
       /\ IF o.outcome = "BUY" /\ ~dry_run
          THEN /\ cash' = BuyCash(cash, price, q)
               /\ holdings' = BuyHoldings(holdings, d.ticker, q)
               /\ cost_basis' = BuyCostBasis(cost_basis, d.ticker, price, q)
               /\ trades' = Append(trades, TradeRecord(d, "BUY", q, price))
          ELSE IF o.outcome = "SELL" /\ ~dry_run
          THEN /\ cash' = SellCash(cash, price, q)
               /\ holdings' = SellHoldings(holdings, d.ticker, q)
               /\ cost_basis' = SellCostBasis(cost_basis, holdings, d.ticker, q)
               /\ trades' = Append(trades, TradeRecord(d, "SELL", q, price))
          ELSE IF o.outcome = "HOLD" /\ ~dry_run
          THEN /\ trades' = Append(trades, TradeRecord(d, "HOLD", q, price))
               /\ UNCHANGED <<cash, holdings, cost_basis>>
          ELSE UNCHANGED ledger
\* execute_trade(decision, portfolio_mgr, current_prices,
\*               total_portfolio_value, dry_run)
execute_trade(d, forced) ==
    LET o == Outcome(d, cash, holdings, current_prices, total_portfolio_value)
        price == Get(current_prices, d.ticker)
        q == o.quantity
    IN /\ last' = [outcome |-> o.outcome, ticker |-> d.ticker,
                   action |-> d.action, quantity |-> d.quantity,
                   confidence |-> d.confidence, final |-> q,
                   price |-> price, forced |-> forced,
                   cash0 |-> cash, owned0 |-> Get(holdings, d.ticker)]
       /\ IF o.outcome = "BUY" /\ Commits(dry_run)
          THEN /\ cash' = BuyCash(cash, price, q)
               /\ holdings' = BuyHoldings(holdings, d.ticker, q)
               /\ cost_basis' = BuyCostBasis(cost_basis, d.ticker, price, q)
               /\ trades' = Append(trades, TradeRecord(d, "BUY", q, price))
          ELSE IF o.outcome = "SELL" /\ Commits(dry_run)
          THEN /\ cash' = SellCash(cash, price, q)
               /\ holdings' = SellHoldings(holdings, d.ticker, q)
               /\ cost_basis' = SellCostBasis(cost_basis, holdings, d.ticker, q)
               /\ trades' = Append(trades, TradeRecord(d, "SELL", q, price))
          ELSE UNCHANGED ledger

(* ---------------- risk sweep ---------------- *)
\* pnl_pct = (price - avg_cost) / avg_cost with avg_cost = cost_basis / shares,
\* compared after multiplying through by 100 * cost_basis (positive)
StopLoss_AtMinus30(price, shares, cb) ==
    100 * (price * shares * cb[2] - cb[1]) <= (-30) * cb[1]
StopLoss(price, shares, cb) ==
    100 * (price * shares * cb[2] - cb[1]) <= STOP_LOSS_PCT * cb[1]
TakeProfit(price, shares, cb) ==
    100 * (price * shares * cb[2] - cb[1]) >= TAKE_PROFIT_PCT * cb[1]

Max(a, b) == IF a >= b THEN a ELSE b

\* a sweep that sells half of the position on a stop-loss as well
enforce_risk_rules_HalfOnStopLoss(h, cb, p) ==
    LET Swept(t) == /\ t \in DOMAIN p
                    /\ h[t] # 0
                    /\ GetFrac(cb, t)[1] # 0
                    /\ \/ StopLoss(p[t], h[t], GetFrac(cb, t))
                       \/ TakeProfit(p[t], h[t], GetFrac(cb, t))
    IN [t \in {x \in DOMAIN h : Swept(x)} |-> Max(1, h[t] \div 2)]
\* a sweep whose take-profit quantity is shares // 2 without the floor of one
enforce_risk_rules_NoFloor(h, cb, p) ==
    LET Swept(t) == /\ t \in DOMAIN p
                    /\ h[t] # 0
                    /\ GetFrac(cb, t)[1] # 0
                    /\ \/ StopLoss(p[t], h[t], GetFrac(cb, t))
                       \/ TakeProfit(p[t], h[t], GetFrac(cb, t))
    IN [t \in {x \in DOMAIN h : Swept(x)} |->
           IF StopLoss(p[t], h[t], GetFrac(cb, t)) THEN h[t]
           ELSE h[t] \div 2]
\* the forced sells, as ticker -> quantity (at most one per held ticker)
enforce_risk_rules(h, cb, p) ==
    LET Swept(t) == /\ t \in DOMAIN p
                    /\ h[t] # 0
                    /\ GetFrac(cb, t)[1] # 0
                    /\ \/ StopLoss(p[t], h[t], GetFrac(cb, t))
                       \/ TakeProfit(p[t], h[t], GetFrac(cb, t))
    IN [t \in {x \in DOMAIN h : Swept(x)} |->
           IF StopLoss(p[t], h[t], GetFrac(cb, t)) THEN h[t]
           ELSE Max(1, h[t] \div 2)]

ForcedSell_LowConfidence(t) ==
    [ticker |-> t, action |-> "SELL",
     quantity |-> forced_trades[t], confidence |-> "low"]
ForcedSell(t) == [ticker |-> t, action |-> "SELL",
                  quantity |-> forced_trades[t], confidence |-> "high"]

(* ---------------- portfolio.json ---------------- *)
\* The file is absent before the first save, partial between the open(.., "w")
\* of save(), which truncates it, and the end of json.dump, complete after.
NoFile == [state |-> "absent", cash |-> INITIAL_CASH, holdings |-> <<>>,
           cost_basis |-> <<>>, trades |-> <<>>, history |-> <<>>,
           reports |-> <<>>]
Truncated == [NoFile EXCEPT !.state = "partial", !.cash = 0]

\* what json.dump(self.data, f) leaves in the file
Written(c, h, cb, tr, hist, rep) ==
    [state |-> "complete", cash |-> c, holdings |-> h, cost_basis |-> cb,
     trades |-> tr, history |-> hist, reports |-> rep]

\* PortfolioManager.load: json.load of the file, or the initial portfolio when
\* there is no file; a partial file does not parse
Loadable(d) == d.state # "partial"

(* ---------------- one cycle of main() ---------------- *)
Init ==
    /\ cash = INITIAL_CASH
    /\ holdings = <<>>
    /\ cost_basis = <<>>
    /\ trades = <<>>
    /\ history = <<>>
    /\ reports = <<>>
    /\ disk = NoFile
    /\ pc = "idle"
    /\ dry_run = FALSE
    /\ current_prices = <<>>
    /\ total_portfolio_value = 0
    /\ forced_trades = <<>>
    /\ pending = {}
    /\ last = NoCall

\* data gathering, total portfolio value and the risk sweep (phases 2 and 3
\* up to the loop over the forced trades).  A run that finds no market data
\* returns before touching the ledger and is no step here.
StartWith(PM, DR, cycles) ==
    /\ pc = "idle"
    /\ Loadable(disk)
    /\ Len(disk.history) < cycles
    /\ cash' = disk.cash
    /\ holdings' = disk.holdings
    /\ cost_basis' = disk.cost_basis
    /\ trades' = disk.trades
    /\ history' = disk.history
    /\ reports' = disk.reports
    /\ \E p \in PM, dr \in DR :
         /\ current_prices' = p
         /\ dry_run' = dr
         /\ total_portfolio_value' = TotalValue(disk.cash, disk.holdings, p)
         /\ forced_trades' =
              enforce_risk_rules(disk.holdings, disk.cost_basis, p)
         /\ pending' =
              DOMAIN enforce_risk_rules(disk.holdings, disk.cost_basis, p)
    /\ pc' = "risk"
    /\ last' = NoCall
    /\ UNCHANGED disk

\* one iteration of: for ft in forced_trades: execute_trade(ft, ...)
ExecForced ==
    /\ pc = "risk"
    /\ \E t \in pending :
         /\ execute_trade(ForcedSell(t), TRUE)
         /\ pending' = pending \ {t}
    /\ UNCHANGED <<history, reports, disk, pc, dry_run, current_prices,
                   total_portfolio_value, forced_trades>>

\* the decision source asked before the loop over the forced trades is done
Consult_Early ==
    /\ pc = "risk"
    /\ pc' = "exec"
    /\ last' = NoCall
    /\ UNCHANGED <<cash, holdings, cost_basis, trades, history, reports,
                   disk, dry_run, current_prices, total_portfolio_value,
                   forced_trades, pending>>
\* get_trading_decisions(client, market_data, pm.data, ...), reached when the
\* loop over the forced trades is done; the decisions it returns are drawn
\* one by one in ExecDecision
Consult ==
    /\ pc = "risk"
    /\ pending = {}
    /\ pc' = "exec"
    /\ last' = NoCall
    /\ UNCHANGED <<cash, holdings, cost_basis, trades, history, reports,
                   disk, dry_run, current_prices, total_portfolio_value,
                   forced_trades, pending>>

\* a failure of the decision source that is not caught and ends main()
ConsultFails_Abort ==
    /\ pc = "risk"
    /\ pending = {}
    /\ pc' = "idle"
    /\ last' = NoCall
    /\ UNCHANGED <<cash, holdings, cost_basis, trades, history, reports,
                   disk, dry_run, current_prices, total_portfolio_value,
                   forced_trades, pending>>
\* get_trading_decisions fails (the request or json.loads raises): its except
\* branch returns {"decisions": []}, so the loop of the execution phase runs
\* over nothing
ConsultFails ==
    /\ pc = "risk"
    /\ pending = {}
    /\ pc' = "failed"
    /\ last' = NoCall
    /\ UNCHANGED <<cash, holdings, cost_basis, trades, history, reports,
                   disk, dry_run, current_prices, total_portfolio_value,
                   forced_trades, pending>>

\* the test in front of execute_trade in the execution phase
PassesFilter_All(d, forced) == TRUE
PassesFilter_HoldOnly(d, forced) ==
    d.action # "HOLD" \/ d.ticker \notin DOMAIN forced
PassesFilter(d, forced) ==
    d.action = "BUY" \/ d.ticker \notin DOMAIN forced

\* one iteration of the execution phase
ExecDecisionOf(D, bound) ==
    /\ pc = "exec"
    /\ Len(trades) < bound
    /\ \E d \in D :
         IF PassesFilter(d, forced_trades)
         THEN execute_trade(d, FALSE)
         ELSE /\ last' = [NoCall EXCEPT !.outcome = "suppressed",
                                        !.ticker = d.ticker,
                                        !.action = d.action,
                                        !.quantity = d.quantity,
                                        !.confidence = d.confidence]
              /\ UNCHANGED ledger
    /\ UNCHANGED <<history, reports, disk, pc, dry_run, current_prices,
                   total_portfolio_value, forced_trades, pending>>

\* a history that keeps only the latest point
update_history_Overwrite(hist, c, h, p) == <<TotalValue(c, h, p)>>
\* PortfolioManager.update_history
update_history(hist, c, h, p) == Append(hist, TotalValue(c, h, p))

\* generate_weekly_report: one report appended, written by the generator or,
\* when it fails, the basic one of the except branch
ReportKinds == {"generated", "fallback"}

\* main() returns or is left by an exception: its locals are gone
Exit ==
    /\ pc' = "idle"
    /\ dry_run' = FALSE
    /\ current_prices' = <<>>
    /\ total_portfolio_value' = 0
    /\ forced_trades' = <<>>
    /\ pending' = {}
    /\ last' = NoCall

\* a decision without a "ticker" field: d["ticker"] raises KeyError in the
\* filter (or in execute_trade for a BUY); nothing catches it, main() is left
\* and what the cycle did to the ledger in memory is never written
ExecDecisionNoTicker ==
    /\ pc = "exec"
    /\ Exit
    /\ UNCHANGED <<cash, holdings, cost_basis, trades, history, reports,
                   disk>>

\* wrap up after the last decision: nothing in a dry run, else the history
\* point and the report, then save()
WrapUp ==
    /\ pc \in {"exec", "failed"}
    /\ IF dry_run
       THEN /\ Exit
            /\ UNCHANGED <<history, reports>>
       ELSE /\ pc' = "save"
            /\ history' =
                 update_history(history, cash, holdings, current_prices)
            /\ \E k \in ReportKinds : reports' = Append(reports, k)
            /\ last' = NoCall
            /\ UNCHANGED <<dry_run, current_prices, total_portfolio_value,
                           forced_trades, pending>>
    /\ UNCHANGED <<cash, holdings, cost_basis, trades, disk>>

\* save(): open(self.filepath, "w") truncates the file
SaveOpen ==
    /\ pc = "save"
    /\ disk' = Truncated
    /\ pc' = "dump"
    /\ UNCHANGED <<cash, holdings, cost_basis, trades, history, reports,
                   dry_run, current_prices, total_portfolio_value,
                   forced_trades, pending, last>>

\* save(): json.dump(self.data, f) completes and the file is closed
SaveDump ==
    /\ pc = "dump"
    /\ disk' = Written(cash, holdings, cost_basis, trades, history, reports)
    /\ Exit
    /\ UNCHANGED <<cash, holdings, cost_basis, trades, history, reports>>

\* the write fails or the process is stopped during json.dump: the exception
\* leaves main() and the file stays as the write left it
SaveInterrupted ==
    /\ pc = "dump"
    /\ Exit
    /\ UNCHANGED <<cash, holdings, cost_basis, trades, history, reports,
                   disk>>

Start == StartWith(PriceMaps(Tickers, Prices), BOOLEAN, MaxCycles)
ExecDecision == ExecDecisionOf(Proposals(Tickers, Quantities), MaxTrades)

Next ==
    \/ Start \/ ExecForced \/ Consult \/ ConsultFails \/ ExecDecision
    \/ ExecDecisionNoTicker \/ WrapUp
    \/ SaveOpen \/ SaveDump \/ SaveInterrupted

Spec == Init /\ [][Next]_vars

(* ---------------- a full portfolio: thirteen tickers at one price ------- *)
\* Reaching MAX_POSITIONS positions and the cash floor takes twelve or more
\* trades.  Here every ticker costs 500 in every cycle (so the risk sweep
\* finds nothing to sell) and the decision source opens positions in the
\* order of ManyTickers, adds to the first one, and sells the last one once
\* the portfolio is full.
ManyTickers == <<"T01", "T02", "T03", "T04", "T05", "T06", "T07",
                 "T08", "T09", "T10", "T11", "T12", "T13">>
ManySet == {ManyTickers[i] : i \in DOMAIN ManyTickers}
ManyPrices == {[t \in ManySet |-> 500]}

FirstUnheld(h) ==
    LET I == {i \in DOMAIN ManyTickers : ManyTickers[i] \notin DOMAIN h}
    IN ManyTickers[CHOOSE i \in I : \A j \in I : i <= j]
LastHeld(h) ==
    LET I == {i \in DOMAIN ManyTickers : ManyTickers[i] \in DOMAIN h}
    IN ManyTickers[CHOOSE i \in I : \A j \in I : i >= j]

Propose(t, a, q) ==
    [ticker |-> t, action |-> a, quantity |-> q, confidence |-> "medium"]

ManyProposals(h) ==
    (IF DOMAIN h # ManySet THEN {Propose(FirstUnheld(h), "BUY", 7)} ELSE {})
    \cup (IF "T01" \in DOMAIN h
          THEN {Propose("T01", "BUY", 3), Propose("T01", "BUY", 17)} ELSE {})
    \cup (IF Cardinality(DOMAIN h) >= MAX_POSITIONS
          THEN {Propose(LastHeld(h), "SELL", h[LastHeld(h)])} ELSE {})

StartMany == StartWith(ManyPrices, BOOLEAN, MaxCycles)
ExecDecisionMany == ExecDecisionOf(ManyProposals(holdings), MaxPosTrades)

NextMany ==
    \/ StartMany \/ Consult \/ ExecDecisionMany \/ WrapUp
    \/ SaveOpen \/ SaveDump \/ SaveInterrupted

SpecMany == Init /\ [][NextMany]_vars

(* ---------------- a position held at a fixed profitable price ----------- *)
\* Selling a position down by halves takes one cycle per sale.  Here every
\* cycle is a real one that runs to the end of save(); A costs 300 in the
\* first cycle and 400 (a gain of a third) in every later one, B costs 300
\* throughout; the decision source may buy A in the first cycle only.
ProfitPrices(hist) ==
    IF hist = <<>> THEN {[t \in Tickers |-> 300]}
    ELSE {[t \in Tickers |-> IF t = "A" THEN 400 ELSE 300]}

ProfitProposals(hist) ==
    {d \in Proposals(Tickers, {2, 15}) :
       hist = <<>> \/ ~(d.ticker = "A" /\ d.action = "BUY"
                                       /\ d.confidence # "low")}

StartProfit ==
    StartWith(ProfitPrices(disk.history), {FALSE}, MaxProfitCycles)
ExecDecisionProfit ==
    ExecDecisionOf(ProfitProposals(history), MaxProfitTrades)

NextProfit ==
    \/ StartProfit \/ ExecForced \/ Consult \/ ConsultFails
    \/ ExecDecisionProfit \/ WrapUp \/ SaveOpen \/ SaveDump

\* the scheduler starts the next cycle, and every loop of a cycle is over a
\* finite list, so each phase of a cycle is left
FairProfit ==
    /\ WF_vars(StartProfit)
    /\ WF_vars(ExecForced)
    /\ WF_vars(Consult)
    /\ WF_vars(WrapUp)
    /\ WF_vars(SaveOpen)
    /\ WF_vars(SaveDump)

SpecProfit == Init /\ [][NextProfit]_vars /\ FairProfit

(* ======================= properties ======================= *)
IsCall(l) == l.outcome \notin {"no_call", "suppressed"}

\* C1: from the fresh ledger, after any sequence of execute_trade calls,
\* cash is >= 0 and every holdings[ticker] is >= 0.
C1_NonNegative ==
    /\ cash >= 0
    /\ \A t \in DOMAIN holdings : holdings[t] >= 0

\* a SELL has just been executed after at least one BUY
C1_Witness ==
    /\ last.outcome = "SELL" /\ ~dry_run
    /\ Len(trades) >= 2
    /\ cash > 0 /\ cash < INITIAL_CASH

\* C2: a ticker is a key of cost_basis if and only if it is a key of
\* holdings, in every reachable ledger state.
C2_SameKeys == DOMAIN cost_basis = DOMAIN holdings

\* a position has been closed while the other ticker is still held
C2_Witness ==
    /\ last.outcome = "SELL" /\ ~dry_run
    /\ last.ticker \notin DOMAIN holdings
    /\ DOMAIN holdings # {}
    /\ DOMAIN cost_basis = DOMAIN holdings

\* C3: a SELL of exactly the held share count removes the ticker from
\* holdings and from cost_basis, and every ticker in holdings has a strictly
\* positive share count.
C3_FullSellRemoves ==
    /\ \A t \in DOMAIN holdings : holdings[t] > 0
    /\ (last.outcome = "SELL" /\ ~dry_run /\ last.final = last.owned0)
         => /\ last.ticker \notin DOMAIN holdings
            /\ last.ticker \notin DOMAIN cost_basis

\* a decision (not the risk sweep) has just sold a whole position
C3_Witness ==
    /\ last.outcome = "SELL" /\ ~dry_run /\ ~last.forced
    /\ last.final = last.owned0
    /\ last.ticker \notin DOMAIN holdings

\* C4: at the prices of the cycle an executed BUY or SELL leaves
\* cash + sum of shares * price unchanged: the cash moves by price * final
\* quantity against the share count, so the value stays the one computed at
\* the start of the cycle over any sequence of trades.
C4_ValueConserved ==
    /\ pc # "idle" =>
         TotalValue(cash, holdings, current_prices) = total_portfolio_value
    /\ (last.outcome = "BUY" /\ ~dry_run) =>
         /\ cash = last.cash0 - last.price * last.final
         /\ Get(holdings, last.ticker) = last.owned0 + last.final
    /\ (last.outcome = "SELL" /\ ~dry_run) =>
         /\ cash = last.cash0 + last.price * last.final
         /\ Get(holdings, last.ticker) = last.owned0 - last.final

\* a partial SELL of more than one share, with shares of both tickers held
C4_Witness ==
    /\ last.outcome = "SELL" /\ ~dry_run
    /\ last.final > 1
    /\ DOMAIN holdings = Tickers
    /\ TotalValue(cash, holdings, current_prices) = total_portfolio_value

\* C5: a SELL of more shares than are held (none held included) or of a
\* quantity <= 0 is skipped: cash, holdings, cost_basis and trades are
\* unchanged.
C5_BadSellSkipped ==
    [][(/\ IsCall(last')
        /\ last'.action = "SELL"
        /\ \/ last'.quantity > Get(holdings, last'.ticker)
           \/ last'.quantity <= 0)
       => /\ last'.outcome \in {"skip_not_enough_shares", "skip_low_confidence",
                                "skip_price_unavailable"}
          /\ UNCHANGED ledger]_vars

\* a SELL of more shares than the held, priced position has been skipped
C5_Witness ==
    /\ last.outcome = "skip_not_enough_shares"
    /\ last.ticker \in DOMAIN holdings
    /\ last.quantity > holdings[last.ticker]
    /\ Len(trades) >= 1

\* the cash floor and the position cap of the call, times 100, and the
\* largest quantities they leave room for
Floor100 == total_portfolio_value * MIN_CASH_RESERVE_PCT
Cap100 == total_portfolio_value * MAX_POSITION_PCT
CashRoom(l) == IntDiv(100 * l.cash0 - Floor100, 100 * l.price)
PosRoom(l) == IntDiv(Cap100 - 100 * l.owned0 * l.price, 100 * l.price)
Least(a, b) == IF a <= b THEN a ELSE b

\* C6 as stated: a BUY whose cost, price * requested quantity, exceeds the
\* cash is never executed, not even at a reduced quantity.
C6_NeverExecuted ==
    (IsCall(last) /\ last.action = "BUY"
       /\ last.price * last.quantity > last.cash0)
    => last.outcome # "BUY"

\* C6 amended: such a BUY is never executed at the requested quantity; it is
\* skipped, or executed at a reduced quantity whose cost leaves the cash at
\* or above the cash-reserve floor.
C6_ReducedOrSkipped ==
    (last.outcome = "BUY" /\ last.price * last.quantity > last.cash0)
    => /\ last.final < last.quantity
       /\ last.final > 0
       /\ 100 * (last.cash0 - last.price * last.final) >= Floor100

\* a BUY costing more than the cash has been executed at a reduced quantity
C6_Witness ==
    /\ last.outcome = "BUY" /\ ~dry_run
    /\ last.price * last.quantity > last.cash0
    /\ cash = last.cash0 - last.price * last.final

\* C7: every executed BUY has a final cost, price * final quantity, of at
\* least MIN_TRADE_VALUE; a clamped BUY below it is rejected.
C7_MinTradeValue ==
    last.outcome = "BUY" => last.price * last.final >= MIN_TRADE_VALUE

\* C8: right after an executed BUY the cash is at least
\* total_portfolio_value * MIN_CASH_RESERVE_PCT, and a requested quantity
\* that would breach that floor is cut to floor((cash - floor) / price)
\* (the position cap may then cut it further).
C8_CashFloor ==
    last.outcome = "BUY" =>
      /\ 100 * (last.cash0 - last.price * last.final) >= Floor100
      /\ ~dry_run => 100 * cash >= Floor100
      /\ 100 * (last.cash0 - last.price * last.quantity) < Floor100
           => last.final = Least(CashRoom(last), PosRoom(last))

\* a BUY has been executed at the quantity the cash floor leaves room for
C8_Witness ==
    /\ last.outcome = "BUY" /\ ~dry_run
    /\ 100 * (last.cash0 - last.price * last.quantity) < Floor100
    /\ last.final = CashRoom(last)
    /\ last.final < PosRoom(last)
    /\ last.final < last.quantity

\* C9: right after an executed BUY the position, shares * price, is at most
\* total_portfolio_value * MAX_POSITION_PCT, and a quantity that would take
\* it over that cap is cut to floor((cap - existing value) / price); with a
\* cap of 10000, 8000 held and a BUY of 100 at 50 the quantity becomes 40.
C9_PositionCap ==
    /\ last.outcome = "BUY" =>
         LET q1 == IF 100 * (last.cash0 - last.price * last.quantity) < Floor100
                   THEN CashRoom(last) ELSE last.quantity
         IN /\ 100 * (last.owned0 + last.final) * last.price <= Cap100
            /\ ~dry_run => 100 * holdings[last.ticker] * last.price <= Cap100
            /\ 100 * (last.owned0 + q1) * last.price > Cap100
                 => last.final = PosRoom(last)
    /\ BuyOutcome(92000, [x \in {"A"} |-> 160], "A", 100, 50, 100000)
         = [outcome |-> "BUY", quantity |-> 40]

\* a BUY adding to a held ticker has been cut to the room under the cap
C9_Witness ==
    /\ last.outcome = "BUY" /\ ~dry_run
    /\ last.owned0 > 0
    /\ last.final < last.quantity
    /\ last.final = PosRoom(last)
    /\ 100 * (holdings[last.ticker] + 1) * last.price > Cap100

\* C10: a BUY of a ticker that is not held is skipped when MAX_POSITIONS
\* tickers are held, so holdings never has more than MAX_POSITIONS tickers;
\* a BUY of a held ticker is not stopped by this rule.
C10_MaxPositions ==
    /\ Cardinality(DOMAIN holdings) <= MAX_POSITIONS
    /\ (last.outcome = "BUY" /\ last.owned0 = 0)
         => Cardinality(DOMAIN holdings \ {last.ticker}) < MAX_POSITIONS
    /\ last.outcome = "skip_max_positions"
         => /\ last.owned0 = 0
            /\ Cardinality(DOMAIN holdings) = MAX_POSITIONS
    /\ (IsCall(last) /\ last.action = "BUY" /\ last.owned0 = 0
          /\ Cardinality(DOMAIN holdings \ {last.ticker}) >= MAX_POSITIONS)
         => last.outcome # "BUY" /\ last.ticker \notin DOMAIN holdings

\* with MAX_POSITIONS tickers held a BUY of a thirteenth has been skipped
C10_Witness ==
    /\ last.outcome = "skip_max_positions"
    /\ Cardinality(DOMAIN holdings) = MAX_POSITIONS
    /\ last.ticker \notin DOMAIN holdings
    /\ Len(trades) >= MAX_POSITIONS

\* C11: a call with confidence "low" ends in the low-confidence skip, whatever
\* its action, quantity or ticker, priced or not and whatever the guardrails
\* would say, and leaves cash, holdings, cost_basis and trades unchanged.
C11_LowConfidenceSkipped ==
    [][(IsCall(last') /\ last'.confidence = "low")
       => /\ last'.outcome = "skip_low_confidence"
          /\ UNCHANGED ledger]_vars

\* a low-confidence BUY has been skipped that passes every guardrail
C11_Witness ==
    /\ last.outcome = "skip_low_confidence" /\ ~dry_run
    /\ last.action = "BUY"
    /\ last.ticker \in DOMAIN current_prices
    /\ BuyOutcome(cash, holdings, last.ticker, last.quantity, last.price,
                  total_portfolio_value).outcome = "BUY"

\* C12: a SELL call with 0 < quantity <= held shares, a price for the ticker
\* and a confidence other than "low" is executed at the requested quantity:
\* the holding goes down by the quantity and the cash up by price * quantity,
\* whatever the trade value, the cash floor, the position cap or the number
\* of positions.
C12_SellInFull ==
    (/\ IsCall(last) /\ last.action = "SELL"
     /\ 0 < last.quantity /\ last.quantity <= last.owned0
     /\ last.price > 0 /\ last.confidence # "low")
    => /\ last.outcome = "SELL"
       /\ last.final = last.quantity
       /\ ~dry_run => /\ Get(holdings, last.ticker)
                           = last.owned0 - last.quantity
                      /\ cash = last.cash0 + last.price * last.quantity

\* a SELL worth less than MIN_TRADE_VALUE has been executed
C12_Witness ==
    /\ last.outcome = "SELL" /\ ~dry_run
    /\ last.price * last.final < MIN_TRADE_VALUE
    /\ cash = last.cash0 + last.price * last.quantity

\* C13: a call of execute_trade that does not execute a BUY or a SELL (a
\* HOLD, or a skip for low confidence, no price, a trade below the minimum
\* size, the cash reserve, the position limit, the number of positions, the
\* cash or the shares) leaves cash, holdings, cost_basis and trades
\* unchanged.
C13_SkipsChangeNothing ==
    [][(IsCall(last') /\ last'.outcome \notin {"BUY", "SELL"})
       => /\ UNCHANGED ledger
          /\ last'.outcome \in
               {"HOLD", "skip_low_confidence", "skip_price_unavailable",
                "skip_too_small", "skip_cash_reserve", "skip_position_limit",
                "skip_max_positions", "skip_insufficient_funds",
                "skip_not_enough_shares"}]_vars

\* a HOLD for a held ticker has returned in a cycle that trades for real
C13_Witness ==
    /\ last.outcome = "HOLD" /\ ~dry_run
    /\ last.ticker \in DOMAIN holdings
    /\ Len(trades) >= 1

\* the reference sweep: the quantity to sell of ticker t, 0 for none.  With
\* avg_cost = cb / shares, pnl_pct <= -10% is price * shares <= 0.9 * cb and
\* pnl_pct >= 20% is price * shares >= 1.2 * cb.
RefSell(h, cb, p, t) ==
    IF t \notin DOMAIN h \/ t \notin DOMAIN p THEN 0
    ELSE IF h[t] = 0 \/ t \notin DOMAIN cb THEN 0
    ELSE IF cb[t][1] = 0 THEN 0
    ELSE IF 10 * p[t] * h[t] * cb[t][2] <= 9 * cb[t][1] THEN h[t]
    ELSE IF 5 * p[t] * h[t] * cb[t][2] >= 6 * cb[t][1]
         THEN (IF h[t] >= 2 THEN h[t] \div 2 ELSE 1)
    ELSE 0

One(v) == [x \in {"A"} |-> v]

\* C14: at the start of a cycle the forced trades are those of the reference
\* sweep over the loaded ledger and the prices of the cycle: the whole
\* position at -10% or worse, max(1, shares \div 2) at +20% or better, nothing
\* in between or without a price; each is executed as a SELL of confidence
\* "high", and the sweep itself leaves the loaded ledger as it is.
C14_ReferenceSweep ==
    /\ enforce_risk_rules(One(100), One(<<10000, 1>>), One(89)) = One(100)
    /\ enforce_risk_rules(One(40), One(<<2000, 1>>), One(61)) = One(20)
    /\ enforce_risk_rules(One(1), One(<<100, 1>>), One(125)) = One(1)
    /\ enforce_risk_rules(One(40), One(<<2000, 1>>), One(55)) = <<>>
    /\ enforce_risk_rules(One(40), One(<<2000, 1>>), <<>>) = <<>>
    /\ pc \in {"risk", "exec", "failed"} =>
         \A t \in Tickers \cup DOMAIN disk.holdings :
            Get(forced_trades, t) =
              RefSell(disk.holdings, disk.cost_basis, current_prices, t)
    /\ (pc = "risk" /\ last = NoCall) =>
         /\ cash = disk.cash /\ holdings = disk.holdings
         /\ cost_basis = disk.cost_basis /\ trades = disk.trades
    /\ (IsCall(last) /\ last.forced) =>
         /\ last.action = "SELL" /\ last.confidence = "high"
         /\ last.quantity = forced_trades[last.ticker]
         /\ last.outcome = "SELL"

\* the sweep has found a stop-loss on one ticker and a take-profit on the
\* other
C14_Witness ==
    /\ pc = "risk" /\ last = NoCall
    /\ DOMAIN forced_trades = Tickers
    /\ \E t \in Tickers : forced_trades[t] = holdings[t]
    /\ \E t \in Tickers : /\ forced_trades[t] < holdings[t]
                           /\ forced_trades[t] = holdings[t] \div 2

\* the decision of the execution phase that has just been handled, passed to
\* execute_trade or not, is for a ticker of the forced trades of the cycle
OnForceSold ==
    /\ pc = "exec" /\ last.outcome # "no_call" /\ ~last.forced
    /\ last.ticker \in DOMAIN forced_trades

\* C15 as stated: no recommended trade, BUY included, for a ticker force-sold
\* in the cycle is executed in that cycle.
C15_NoneExecuted ==
    OnForceSold => ~(last.outcome \in {"BUY", "SELL"} /\ ~dry_run)

\* C15 amended: a recommended SELL or HOLD for a ticker force-sold in the
\* cycle never reaches execute_trade; a recommended BUY for such a ticker,
\* and every recommendation for another ticker, is passed to execute_trade.
C15_SellHoldSuppressed ==
    /\ OnForceSold =>
         IF last.action = "BUY" THEN IsCall(last)
         ELSE last.outcome = "suppressed"
    /\ (pc = "exec" /\ last.outcome = "suppressed") =>
         /\ last.ticker \in DOMAIN forced_trades
         /\ last.action # "BUY"

\* a HOLD for a ticker sold by the risk sweep of the cycle has been dropped
C15_Witness ==
    /\ OnForceSold /\ ~dry_run
    /\ last.outcome = "suppressed" /\ last.action = "HOLD"
    /\ Len(trades) > Len(disk.trades)

\* the SELL records of ticker t appended to trades since the ledger was loaded
SellsInCycle(t) ==
    Cardinality({i \in (Len(disk.trades) + 1)..Len(trades) :
                   trades[i].ticker = t /\ trades[i].action = "SELL"})

\* C16: a recommended SELL for a ticker of the forced trades of the cycle is
\* not passed to execute_trade, and trades gets at most one SELL record per
\* force-sold ticker in the cycle.
C16_NoSecondSell ==
    /\ (OnForceSold /\ last.action = "SELL") => last.outcome = "suppressed"
    /\ pc \in {"risk", "exec", "failed", "save"} =>
         \A t \in DOMAIN forced_trades : SellsInCycle(t) <= 1

\* a SELL that the remaining half of a position could serve has been dropped
\* after the take-profit sale of the cycle
C16_Witness ==
    /\ OnForceSold /\ ~dry_run
    /\ last.outcome = "suppressed" /\ last.action = "SELL"
    /\ 0 < last.quantity /\ last.quantity <= Get(holdings, last.ticker)
    /\ SellsInCycle(last.ticker) = 1

Worth(t) ==
    IF t \in DOMAIN holdings /\ t \in DOMAIN current_prices
    THEN holdings[t] * current_prices[t] ELSE 0

\* C19: update_history appends one point, cash + shares * price summed over
\* the held tickers that have a price (a held ticker without a price adds
\* nothing), and changes nothing else of the ledger; a second call with the
\* same prices appends a point of the same value.
C19_ValuationPoint ==
    [][(pc \in {"exec", "failed"} /\ pc' = "save") =>
         /\ history' = Append(history, cash + Worth("A") + Worth("B"))
         /\ UNCHANGED ledger
         /\ LET again == update_history(history', cash', holdings',
                                        current_prices')
            IN /\ Len(again) = Len(history) + 2
               /\ again[Len(again)] = again[Len(again) - 1]
               /\ SubSeq(again, 1, Len(history')) = history']_vars

\* a point has been appended with one held ticker priced and the other not
C19_Witness ==
    /\ pc = "save"
    /\ DOMAIN holdings = Tickers
    /\ \E t \in Tickers : t \notin DOMAIN current_prices
    /\ \E t \in Tickers : t \in DOMAIN current_prices
    /\ history[Len(history)] = cash + Worth("A") + Worth("B")
    /\ history[Len(history)] > cash

\* C20: the file never holds a truncated or partly written ledger: whatever
\* happens to a save, a reader finds the previous ledger or the new one.
C20_NeverPartial == disk.state # "partial"

\* C21 as stated: whenever the decision source fails, the cycle appends a
\* history point and goes on to save the ledger.
C21_AlwaysValuedAndSaved ==
    [][(pc = "failed" /\ pc' # pc)
       => pc' = "save" /\ Len(history') = Len(history) + 1]_vars

\* C21 amended: a failure of the decision source does not end the cycle: the
\* forced sells have been executed before it, no recommended trade follows,
\* and a cycle that is not a dry run appends one history point and one
\* report, the fallback one when the report generator fails, and calls save;
\* a dry run ends without any of the three.
C21_DegradedCycle ==
    [][/\ (pc = "risk" /\ pc' # pc) => pc' \in {"exec", "failed"}
       /\ pc = "failed" =>
            /\ pending = {}
            /\ ~dry_run => \A t \in DOMAIN forced_trades : SellsInCycle(t) = 1
            /\ UNCHANGED ledger
            /\ IF dry_run
               THEN pc' = "idle" /\ UNCHANGED <<history, reports, disk>>
               ELSE pc' = "save"
       /\ (pc # "save" /\ pc' = "save") =>
            /\ Len(history') = Len(history) + 1
            /\ \E k \in {"generated", "fallback"} :
                 reports' = Append(reports, k)
       /\ pc = "save" => pc' = "dump" /\ UNCHANGED <<ledger, history, reports>>
       /\ (pc = "dump" /\ disk'.state = "complete") =>
            /\ disk'.trades = trades /\ disk'.history = history
            /\ disk'.reports = reports /\ disk'.cash = cash]_vars

\* the decision source has failed after the forced sells of a cycle that
\* trades for real
C21_Witness ==
    /\ pc = "failed" /\ ~dry_run
    /\ DOMAIN forced_trades # {}
    /\ \A t \in DOMAIN forced_trades : SellsInCycle(t) = 1
    /\ Len(trades) = Len(disk.trades) + Cardinality(DOMAIN forced_trades)

\* C22: no cycle ends with the ledger changed in memory but not written:
\* whenever no cycle is running and the file is readable, the ledger of the
\* last run is the ledger in the file.
C22_NothingLost ==
    (pc = "idle" /\ Loadable(disk)) =>
      /\ cash = disk.cash /\ holdings = disk.holdings
      /\ cost_basis = disk.cost_basis /\ trades = disk.trades

\* C23: while a cycle runs, trades changes only by an executed BUY or SELL,
\* which appends one record at the end with the ticker, the action and the
\* final quantity of the call; every other call and step leaves trades as it
\* is, the records read from the file stay in front, and save writes the
\* sequence as it stands.
C23_AppendOnly ==
    [][/\ pc # "idle" =>
            IF IsCall(last') /\ last'.outcome \in {"BUY", "SELL"} /\ ~dry_run
            THEN trades' = Append(trades,
                     [ticker |-> last'.ticker, action |-> last'.action,
                      quantity |-> last'.final, price |-> last'.price,
                      total |-> last'.price * last'.final,
                      confidence |-> last'.confidence])
            ELSE trades' = trades
       /\ pc \in {"risk", "exec", "failed", "save"} =>
            /\ Len(trades) >= Len(disk.trades)
            /\ SubSeq(trades, 1, Len(disk.trades)) = disk.trades
       /\ (pc = "dump" /\ disk'.state = "complete") => disk'.trades = trades
       /\ (pc = "idle" /\ pc' # pc) => trades' = disk.trades]_vars

\* a BUY cut by a guardrail has been recorded behind an earlier trade
C23_Witness ==
    /\ last.outcome = "BUY" /\ ~dry_run
    /\ 0 < last.final /\ last.final < last.quantity
    /\ Len(trades) >= 2
    /\ trades[Len(trades)].quantity = last.final
    /\ trades[Len(trades)].ticker = last.ticker

\* quantity q keeps both limits of the call: the cash stays at or above the
\* floor and the position at or below the cap
WithinLimits(l, q) ==
    /\ 100 * (l.cash0 - q * l.price) >= Floor100
    /\ 100 * (l.owned0 + q) * l.price <= Cap100

\* C24: the final quantity of an executed BUY is the largest q <= requested
\* quantity that keeps the cash floor and the position cap, and a BUY is
\* skipped for the cash reserve or the position limit only when no q in
\* 1..requested keeps both with a cost of at least MIN_TRADE_VALUE.
C24_LargestQuantity ==
    /\ last.outcome = "BUY" =>
         /\ last.final \in 1..last.quantity
         /\ WithinLimits(last, last.final)
         /\ \A q \in (last.final + 1)..last.quantity : ~WithinLimits(last, q)
    /\ last.outcome \in {"skip_cash_reserve", "skip_position_limit"} =>
         \A q \in 1..last.quantity :
            ~(q * last.price >= MIN_TRADE_VALUE /\ WithinLimits(last, q))

\* a BUY has been cut to the largest quantity the limits allow: one share
\* more would break the cash floor or the position cap
C24_Witness ==
    /\ last.outcome = "BUY" /\ ~dry_run
    /\ last.final < last.quantity
    /\ WithinLimits(last, last.final)
    /\ ~WithinLimits(last, last.final + 1)
    /\ cash = last.cash0 - last.price * last.final

\* fractions a and b, <<numerator, denominator>>, are the same number
SameFrac(a, b) == a[1] * b[2] = b[1] * a[2]

\* C25: an executed BUY adds price * final quantity to the cost basis of the
\* ticker; an executed SELL of q out of n shares, q < n, multiplies it by
\* (n - q) / n, so cost basis / shares is the same before and after; the
\* cost basis of the other tickers is untouched and no cost basis is ever
\* negative.
C25_CostBasisTracksShares ==
    [][/\ \A t \in DOMAIN cost_basis : cost_basis[t][1] >= 0 /\ cost_basis[t][2] > 0
       /\ (IsCall(last') /\ ~dry_run /\ last'.outcome \in {"BUY", "SELL"}) =>
            LET t == last'.ticker
                old == GetFrac(cost_basis, t)
                n == last'.owned0
                q == last'.final
            IN /\ \A u \in DOMAIN cost_basis \ {t} :
                    u \in DOMAIN cost_basis' /\ cost_basis'[u] = cost_basis[u]
               /\ last'.outcome = "BUY" =>
                    SameFrac(cost_basis'[t],
                             <<old[1] + last'.price * q * old[2], old[2]>>)
               /\ (last'.outcome = "SELL" /\ q < n) =>
                    /\ SameFrac(cost_basis'[t], <<old[1] * (n - q), old[2] * n>>)
                    /\ SameFrac(<<cost_basis'[t][1],
                                  cost_basis'[t][2] * holdings'[t]>>,
                                <<old[1], old[2] * holdings[t]>>)
               /\ (last'.outcome = "SELL" /\ q = n) =>
                    t \notin DOMAIN cost_basis']_vars

\* part of a position has been sold and the rest keeps a positive cost basis
C25_Witness ==
    /\ last.outcome = "SELL" /\ ~dry_run
    /\ 0 < last.final /\ last.final < last.owned0
    /\ last.ticker \in DOMAIN cost_basis
    /\ cost_basis[last.ticker][1] > 0
    /\ holdings[last.ticker] = last.owned0 - last.final

\* C26: every forced trade of the sweep is executed when its turn comes: it
\* is a SELL of confidence "high" for a priced ticker with 1 <= quantity <=
\* held shares, there is one per ticker at most, and the forced sells still
\* waiting stay executable whatever forced sells ran before them; in a cycle
\* that is not a dry run each has its record in trades once the sweep is
\* through.
C26_ForcedSellsExecute ==
    /\ (IsCall(last) /\ last.forced) =>
         /\ last.outcome = "SELL" /\ last.final = last.quantity
         /\ last.confidence = "high" /\ last.price > 0
         /\ 1 <= last.quantity /\ last.quantity <= last.owned0
         /\ ~dry_run => Get(holdings, last.ticker)
                           = last.owned0 - last.quantity
    /\ pc = "risk" =>
         \A t \in pending :
            /\ t \in DOMAIN current_prices
            /\ 1 <= forced_trades[t] /\ forced_trades[t] <= Get(holdings, t)
            /\ Outcome(ForcedSell(t), cash, holdings, current_prices,
                       total_portfolio_value).outcome = "SELL"
    /\ (pc \in {"exec", "failed", "save"} /\ ~dry_run) =>
         \A t \in DOMAIN forced_trades : SellsInCycle(t) >= 1

\* the second of two forced sells has been executed after the first
C26_Witness ==
    /\ IsCall(last) /\ last.forced /\ ~dry_run
    /\ last.outcome = "SELL"
    /\ pending = {}
    /\ Cardinality(DOMAIN forced_trades) = 2
    /\ Len(trades) = Len(disk.trades) + 2

\* ticker t is held, priced, has a nonzero cost basis and stands at -10% or
\* worse against its average cost at the prices of the cycle
AtStopLoss(t) ==
    /\ t \in DOMAIN holdings /\ t \in DOMAIN current_prices
    /\ t \in DOMAIN cost_basis /\ cost_basis[t][1] # 0
    /\ 10 * current_prices[t] * holdings[t] * cost_basis[t][2]
         <= 9 * cost_basis[t][1]

\* C27: in a cycle that is not a dry run, once the forced sells are through
\* and up to the end of the cycle, no held and priced ticker with a nonzero
\* average cost stands at -10% or worse at the prices of the cycle, whatever
\* was bought or sold after the sweep.
C27_NoStopLossLeft ==
    (pc \in {"exec", "failed", "save", "dump"} /\ ~dry_run) =>
      \A t \in Tickers \cup DOMAIN holdings : ~AtStopLoss(t)

\* at the end of a cycle a ticker sold whole by the stop-loss is held again,
\* bought back at the price of the cycle
C27_Witness ==
    /\ pc = "save" /\ ~dry_run
    /\ \E t \in DOMAIN forced_trades :
         /\ forced_trades[t] = disk.holdings[t]
         /\ t \in DOMAIN holdings
         /\ ~AtStopLoss(t)


\* a ticker is held at a price that triggers the take-profit and not the
\* stop-loss, in the ledger as the cycle loaded it
AtTakeProfit(t) ==
    /\ Loadable(disk) /\ disk.state = "complete"
    /\ t \in DOMAIN disk.holdings /\ disk.holdings[t] > 0
    /\ t \in DOMAIN current_prices
    /\ GetFrac(disk.cost_basis, t)[1] # 0
    /\ TakeProfit(current_prices[t], disk.holdings[t],
                  GetFrac(disk.cost_basis, t))

C29_ValueFixedInCycle ==
    [][/\ (pc \in {"risk", "exec"} /\ pc' = pc /\ IsCall(last')) =>
            /\ total_portfolio_value =
                 cash + SumOver((DOMAIN holdings) \cap (DOMAIN current_prices),
                                holdings, current_prices)
            /\ total_portfolio_value' = total_portfolio_value
       /\ (pc \in {"exec", "failed"} /\ pc' = "save") =>
            /\ Len(history') = Len(history) + 1
            /\ history'[Len(history')] = total_portfolio_value]_vars
\* the end of a real cycle in which a forced sell and then a recommended
\* trade were executed on a ledger that holds shares
C29_Witness ==
    /\ pc = "save" /\ ~dry_run
    /\ forced_trades # <<>>
    /\ Len(trades) >= Len(disk.trades) + 2
    /\ trades[Len(trades)].action = "BUY"
    /\ holdings # <<>>
    /\ cash # total_portfolio_value
    /\ history[Len(history)] = total_portfolio_value


\* C30: in a dry run nothing durable changes: execute_trade leaves cash,
\* holdings, cost_basis and trades as they are for every proposal, also one it
\* reports as BUY or SELL, no history point or report is appended and save is
\* never called, so the ledger on disk stays the one the cycle loaded.
C30_DryRunChangesNothing ==
    [][dry_run =>
         /\ UNCHANGED <<ledger, history, reports, disk>>
         /\ pc' \notin {"save", "dump"}
         /\ Loadable(disk')
         /\ <<cash', holdings', cost_basis', trades', history', reports'>> =
              <<disk'.cash, disk'.holdings, disk'.cost_basis, disk'.trades,
                disk'.history, disk'.reports>>]_vars
\* in a dry run on a saved ledger with shares, after a forced sell was
\* reported, a BUY is reported as executed
C30_Witness ==
    /\ dry_run /\ pc = "exec"
    /\ disk.state = "complete" /\ disk.holdings # <<>>
    /\ forced_trades # <<>>
    /\ last.outcome = "BUY" /\ last.final > 0
    /\ cash = last.cash0

==============================================================================
